---- MODULE Spec2Model ----
(***************************************************************************)
(* Walk-the-dog: the top-level game state machine (Ready, Walking,         *)
(* GameOver), the Walk it wraps, the RedHatBoy character state machine,    *)
(* the obstacles and the segment generator of src/src/game.rs and          *)
(* src/src/segment.rs.                                                     *)
(*                                                                         *)
(* The modules `engine` and `browser` are not part of the sources at hand: *)
(* Rect, Image, the sprite atlas, the DOM and the click channel are        *)
(* modelled from their use in game.rs and from the design document.        *)
(* All coordinates are i16 in the program; every value the model reaches   *)
(* stays far inside the i16 range, so plain integers are used.             *)
(***************************************************************************)
EXTENDS Integers, Sequences, FiniteSets, TLC

VARIABLES
    machine,        \* WalkTheDog.machine: "None" or the live phase
    walk,           \* the Walk owned by the live phase
    new_game_event, \* GameOver.new_game_event: messages waiting in the channel
    ui,             \* ids of the elements rendered inside the ui container
    page,           \* ids of the elements of the static page
    keystate,       \* the key snapshot of the last update call
    events,         \* the character events applied by the last update call
    checks,         \* the check_intersection calls of the last update call
    ticks,          \* Walking update calls on the current Walk
    games,          \* number of times the Walk has been reset
    result          \* outcome of the last call: "Ok", "Err", "Unit" or "Panic"

vars == <<machine, walk, new_game_event, ui, page, keystate, events, checks,
          ticks, games, result>>

----------------------------------------------------------------------------
(* Bounds of the model *)

\* Walking ticks explored on the first Walk
MaxTicks == 140
\* Walking ticks explored on a Walk after a reset
MaxReplayTicks == 2
\* initialize is called again only up to this Walking tick
MaxReinitTicks == 0
\* clicks waiting in the channel
MaxClicks == 2
\* keys held down in one key snapshot
MaxPressed == 1
\* Walking ticks within which a jump has to end
JumpHorizon == 53

----------------------------------------------------------------------------
(* Program constants *)

HEIGHT == 600
TIMELINE_MINIMUM == 1000
OBSTACLE_BUFFER == 20

FLOOR == 479
STARTING_POINT == -20
PLAYER_HEIGHT == HEIGHT - FLOOR

IDLE_FRAMES == 29
RUNNING_FRAMES == 23
SLIDING_FRAMES == 15
JUMPING_FRAMES == 35
FALLING_FRAMES == 29

RUNNING_SPEED == 4
JUMP_SPEED == -25
MAX_VELOCITY == 20
GRAVITY == 1

HIGH_PLATFORM == 375
LOW_PLATFORM == 420
FIRST_PLATFORM == 370

INITIAL_STONE_OFFSET == 150
STONE_ON_GROUND == 550

X_OFFSET == 18
Y_OFFSET == 14
WIDTH_OFFSET == 28

(* Data of the assets (image sizes, atlas cells): not in the sources. *)
STONE_WIDTH == 90
STONE_HEIGHT == 54
BACKGROUND_WIDTH == 1200
BACKGROUND_HEIGHT == 600

----------------------------------------------------------------------------
(* Geometry: engine::Rect, engine::Image, game::Point *)

Min(a, b) == IF a < b THEN a ELSE b

Point(x, y) == [x |-> x, y |-> y]

new_from_x_y(x, y, width, height) ==
    [position |-> Point(x, y), width |-> width, height |-> height]

RectRight(r) == r.position.x + r.width

RectBottom(r) == r.position.y + r.height

intersects(a, b) ==
    /\ a.position.x < RectRight(b)
    /\ RectRight(a) > b.position.x
    /\ a.position.y < RectBottom(b)
    /\ RectBottom(a) > b.position.y

RectSetX(r, x) == [r EXCEPT !.position.x = x]

ImageNew(position, width, height) ==
    [position |-> position,
     bounding_box |-> new_from_x_y(position.x, position.y, width, height)]

ImageRight(image) == RectRight(image.bounding_box)

ImageSetX(image, x) ==
    [image EXCEPT !.position.x = x, !.bounding_box = RectSetX(@, x)]

ImageMoveHorizontally(image, distance) ==
    ImageSetX(image, image.position.x + distance)

----------------------------------------------------------------------------
(* The sprite atlas of the character: key "<name> (<n>).png" *)

SheetFrameCount(name) ==
    CASE name = "Idle" -> 10
      [] name = "Run" -> 8
      [] name = "Slide" -> 5
      [] name = "Jump" -> 12
      [] name = "Dead" -> 10

(* frame: the source rectangle's size; sprite_source_size: the trim offset *)
SheetCell(name) ==
    CASE name = "Idle" ->
            [frame |-> [w |-> 71, h |-> 115], sprite_source_size |-> Point(58, 8)]
      [] name = "Run" ->
            [frame |-> [w |-> 96, h |-> 118], sprite_source_size |-> Point(46, 5)]
      [] name = "Slide" ->
            [frame |-> [w |-> 96, h |-> 90], sprite_source_size |-> Point(40, 34)]
      [] name = "Jump" ->
            [frame |-> [w |-> 90, h |-> 120], sprite_source_size |-> Point(50, 4)]
      [] name = "Dead" ->
            [frame |-> [w |-> 120, h |-> 115], sprite_source_size |-> Point(30, 10)]

----------------------------------------------------------------------------
(* red_hat_boy_states::RedHatBoyContext *)

(* C6 mutant: the floor clamp is missing *)
apply_velocity_no_floor(context) ==
    LET y1 == context.position.y + context.velocity.y
        vy1 == Min(context.velocity.y + GRAVITY, MAX_VELOCITY)
    IN  [context EXCEPT !.position.y = y1, !.velocity.y = vy1]

(* C7 mutant: the terminal-velocity clamp is missing *)
apply_velocity_no_cap(context) ==
    LET y1 == context.position.y + context.velocity.y
        vy1 == context.velocity.y + GRAVITY
    IN  [context EXCEPT !.position.y = Min(y1, FLOOR), !.velocity.y = vy1]

(* C23 mutant: the horizontal velocity is integrated too *)
apply_velocity_drift(context) ==
    LET y1 == context.position.y + context.velocity.y
        vy1 == Min(context.velocity.y + GRAVITY, MAX_VELOCITY)
    IN  [context EXCEPT !.position.x = @ + context.velocity.x,
                        !.position.y = Min(y1, FLOOR), !.velocity.y = vy1]

(* C29 mutant: there is no gravity *)
apply_velocity_no_gravity(context) ==
    LET y1 == context.position.y + context.velocity.y
    IN  [context EXCEPT !.position.y = Min(y1, FLOOR)]

apply_velocity(context) ==
    LET y1 == context.position.y + context.velocity.y
        vy1 == Min(context.velocity.y + GRAVITY, MAX_VELOCITY)
    IN  [context EXCEPT !.position.y = Min(y1, FLOOR), !.velocity.y = vy1]

(* C15 mutant: the frame wraps one update later *)
ContextUpdate_wrap_late(context, frame_count) ==
    apply_velocity([context EXCEPT
        !.frame = IF context.frame <= frame_count THEN context.frame + 1 ELSE 0])

ContextUpdate(context, frame_count) ==
    apply_velocity([context EXCEPT
        !.frame = IF context.frame < frame_count THEN context.frame + 1 ELSE 0])

reset_frame(context) == [context EXCEPT !.frame = 0]

run_right(context) == [context EXCEPT !.velocity.x = @ + RUNNING_SPEED]

set_vertical_velocity(context, speed) == [context EXCEPT !.velocity.y = speed]

stop(context) == [context EXCEPT !.velocity.x = 0]

set_on(context, position) ==
    [context EXCEPT !.position.y = position - PLAYER_HEIGHT]

----------------------------------------------------------------------------
(* RedHatBoyState<S> and RedHatBoyStateMachine: [state, context] *)

State(state, context) == [state |-> state, context |-> context]

IdleNew ==
    State("Idle", [frame |-> 0,
                   position |-> Point(STARTING_POINT, FLOOR),
                   velocity |-> Point(0, 0)])

IdleRun(s) == State("Running", run_right(reset_frame(s.context)))

IdleUpdate(s) == State("Idle", ContextUpdate(s.context, IDLE_FRAMES))

RunningUpdate(s) == State("Running", ContextUpdate(s.context, RUNNING_FRAMES))

RunningSlide(s) == State("Sliding", reset_frame(s.context))

(* C25 mutant: a knocked-out runner keeps its speed *)
RunningKnockOut_keeps_speed(s) == State("Falling", reset_frame(s.context))

RunningKnockOut(s) == State("Falling", stop(reset_frame(s.context)))

RunningJump(s) ==
    State("Jumping", reset_frame(set_vertical_velocity(s.context, JUMP_SPEED)))

RunningLandOn(s, position) == State("Running", set_on(s.context, position))

SlidingStand(s) == State("Running", reset_frame(s.context))

(* C13 mutant: the slide ends one update later *)
SlidingUpdate_late(s) ==
    LET c == ContextUpdate(s.context, SLIDING_FRAMES)
    IN  IF c.frame > SLIDING_FRAMES
        THEN SlidingStand(State("Sliding", c))
        ELSE State("Sliding", c)

SlidingUpdate(s) ==
    LET c == ContextUpdate(s.context, SLIDING_FRAMES)
    IN  IF c.frame >= SLIDING_FRAMES
        THEN SlidingStand(State("Sliding", c))
        ELSE State("Sliding", c)

SlidingKnockOut(s) == State("Falling", stop(reset_frame(s.context)))

SlidingLandOn(s, position) == State("Sliding", set_on(s.context, position))

(* C14 mutant: landing keeps the frame of the jump *)
JumpingLandOn_keep_frame(s, position) ==
    State("Running", set_on(s.context, position))

JumpingLandOn(s, position) ==
    State("Running", set_on(reset_frame(s.context), position))

(* C24 mutant: the jump ends when its animation does *)
JumpingUpdate_by_frame(s) ==
    LET c == ContextUpdate(s.context, JUMPING_FRAMES)
    IN  IF c.frame >= JUMPING_FRAMES
        THEN JumpingLandOn(State("Jumping", c), HEIGHT)
        ELSE State("Jumping", c)

JumpingUpdate(s) ==
    LET c == ContextUpdate(s.context, JUMPING_FRAMES)
    IN  IF c.position.y >= FLOOR
        THEN JumpingLandOn(State("Jumping", c), HEIGHT)
        ELSE State("Jumping", c)

JumpingKnockOut(s) == State("Falling", stop(reset_frame(s.context)))

FallingDead(s) == State("KnockedOut", s.context)

FallingUpdate(s) ==
    LET c == ContextUpdate(s.context, FALLING_FRAMES)
    IN  IF c.frame >= FALLING_FRAMES
        THEN FallingDead(State("Falling", c))
        ELSE State("Falling", c)

KnockedOutUpdate(s) == State("KnockedOut", apply_velocity(s.context))

KnockedOutLandOn(s, position) == State("KnockedOut", set_on(s.context, position))

(* game::Event *)
Run == [type |-> "Run"]
Slide == [type |-> "Slide"]
Jump == [type |-> "Jump"]
KnockOut == [type |-> "KnockOut"]
Land(position) == [type |-> "Land", position |-> position]
Update == [type |-> "Update"]

(* The match of RedHatBoyStateMachine::transition, its default arm last *)
TransitionMatch(s, event) ==
    CASE s.state = "Idle" /\ event.type = "Run" -> IdleRun(s)
      [] s.state = "Running" /\ event.type = "Slide" -> RunningSlide(s)
      [] s.state = "Running" /\ event.type = "Jump" -> RunningJump(s)
      [] s.state = "Running" /\ event.type = "KnockOut" -> RunningKnockOut(s)
      [] s.state = "Running" /\ event.type = "Land" -> RunningLandOn(s, event.position)
      [] s.state = "Jumping" /\ event.type = "KnockOut" -> JumpingKnockOut(s)
      [] s.state = "Jumping" /\ event.type = "Land" -> JumpingLandOn(s, event.position)
      [] s.state = "Sliding" /\ event.type = "KnockOut" -> SlidingKnockOut(s)
      [] s.state = "Sliding" /\ event.type = "Land" -> SlidingLandOn(s, event.position)
      [] s.state = "KnockedOut" /\ event.type = "Land" ->
            KnockedOutLandOn(s, event.position)
      [] s.state = "Idle" /\ event.type = "Update" -> IdleUpdate(s)
      [] s.state = "Running" /\ event.type = "Update" -> RunningUpdate(s)
      [] s.state = "Sliding" /\ event.type = "Update" -> SlidingUpdate(s)
      [] s.state = "Jumping" /\ event.type = "Update" -> JumpingUpdate(s)
      [] s.state = "Falling" /\ event.type = "Update" -> FallingUpdate(s)
      [] s.state = "KnockedOut" /\ event.type = "Update" -> KnockedOutUpdate(s)
      [] OTHER -> s

(* C8, C9 mutant: the Run event adds running speed to a Running character too *)
transition_run_while_running(s, event) ==
    IF s.state = "Running" /\ event.type = "Run"
    THEN State("Running", run_right(s.context))
    ELSE TransitionMatch(s, event)

transition(s, event) == TransitionMatch(s, event)

StateFrameName(s) ==
    CASE s.state = "Idle" -> "Idle"
      [] s.state = "Running" -> "Run"
      [] s.state = "Sliding" -> "Slide"
      [] s.state = "Jumping" -> "Jump"
      [] s.state = "Falling" -> "Dead"
      [] s.state = "KnockedOut" -> "Dead"

----------------------------------------------------------------------------
(* RedHatBoy: the state machine value; the sheet and the image are assets *)

FrameIndex(boy) == (boy.context.frame \div 3) + 1

(* current_sprite: Some(cell) iff the key is in the atlas *)
CellFound(boy) == FrameIndex(boy) <= SheetFrameCount(StateFrameName(boy))

current_sprite(boy) == SheetCell(StateFrameName(boy))

destination_box(boy) ==
    LET sprite == current_sprite(boy)
    IN  new_from_x_y(boy.context.position.x + sprite.sprite_source_size.x,
                     boy.context.position.y + sprite.sprite_source_size.y,
                     sprite.frame.w, sprite.frame.h)

bounding_box(boy) ==
    LET box == destination_box(boy)
    IN  new_from_x_y(box.position.x + X_OFFSET, box.position.y + Y_OFFSET,
                     box.width - WIDTH_OFFSET, box.height - Y_OFFSET)

walking_speed(boy) == boy.context.velocity.x

velocity_y(boy) == boy.context.velocity.y

pos_y(boy) == boy.context.position.y

(* C27 mutant: the end of the fall is never seen *)
knocked_out_never(boy) == FALSE

knocked_out(boy) == boy.state = "KnockedOut"

RedHatBoyNew == IdleNew

RedHatBoyReset(boy) == RedHatBoyNew

----------------------------------------------------------------------------
(* Obstacles: Barrier and Platform *)

BarrierNew(image) == [kind |-> "Barrier", image |-> image]

FLOATING_PLATFORM_BOUNDING_BOXES ==
    << new_from_x_y(0, 0, 60, 54),
       new_from_x_y(60, 0, 384 - (60 * 2), 93),
       new_from_x_y(384 - 60, 0, 60, 54) >>

PlatformNew(position, boxes) ==
    [kind |-> "Platform",
     position |-> position,
     bounding_boxes |->
        [i \in 1..Len(boxes) |->
            new_from_x_y(boxes[i].position.x + position.x,
                         boxes[i].position.y + position.y,
                         boxes[i].width, boxes[i].height)]]

PlatformRight(platform) ==
    IF Len(platform.bounding_boxes) = 0
    THEN 0
    ELSE RectRight(platform.bounding_boxes[Len(platform.bounding_boxes)])

ObstacleRight(obstacle) ==
    IF obstacle.kind = "Barrier"
    THEN ImageRight(obstacle.image)
    ELSE PlatformRight(obstacle)

ObstacleMoveHorizontally(obstacle, x) ==
    IF obstacle.kind = "Barrier"
    THEN [obstacle EXCEPT !.image = ImageMoveHorizontally(@, x)]
    ELSE [obstacle EXCEPT
            !.position.x = @ + x,
            !.bounding_boxes =
                [i \in 1..Len(@) |-> RectSetX(@[i], @[i].position.x + x)]]

(* Index of the first rectangle that overlaps the collision box, 0 if none *)
FirstOverlap(rects, box) ==
    LET hits == {i \in 1..Len(rects) : intersects(box, rects[i])}
    IN  IF hits = {} THEN 0 ELSE CHOOSE i \in hits : \A j \in hits : i <= j

(* A check_intersection call yields the character and whether the atlas
   lookup of bounding_box failed ("Cell not found") *)
Checked(boy, failed) == [boy |-> boy, failed |-> failed]

(* C10 mutant: the barrier knocks out only a character that moves downward *)
BarrierCheckIntersection_downward(barrier, boy) ==
    IF ~CellFound(boy)
    THEN Checked(boy, TRUE)
    ELSE IF /\ intersects(bounding_box(boy), barrier.image.bounding_box)
            /\ velocity_y(boy) > 0
         THEN Checked(transition(boy, KnockOut), FALSE)
         ELSE Checked(boy, FALSE)

BarrierCheckIntersection(barrier, boy) ==
    IF ~CellFound(boy)
    THEN Checked(boy, TRUE)
    ELSE IF intersects(bounding_box(boy), barrier.image.bounding_box)
         THEN Checked(transition(boy, KnockOut), FALSE)
         ELSE Checked(boy, FALSE)

(* C11 mutant: every overlap with downward velocity is a landing *)
PlatformCheckIntersection_any_height(platform, boy) ==
    IF Len(platform.bounding_boxes) = 0
    THEN Checked(boy, FALSE)
    ELSE IF ~CellFound(boy)
    THEN Checked(boy, TRUE)
    ELSE LET i == FirstOverlap(platform.bounding_boxes, bounding_box(boy))
         IN  IF i = 0
             THEN Checked(boy, FALSE)
             ELSE IF velocity_y(boy) > 0
                  THEN Checked(transition(boy,
                            Land(platform.bounding_boxes[i].position.y)), FALSE)
                  ELSE Checked(transition(boy, KnockOut), FALSE)

PlatformCheckIntersection(platform, boy) ==
    IF Len(platform.bounding_boxes) = 0
    THEN Checked(boy, FALSE)
    ELSE IF ~CellFound(boy)
    THEN Checked(boy, TRUE)
    ELSE LET i == FirstOverlap(platform.bounding_boxes, bounding_box(boy))
         IN  IF i = 0
             THEN Checked(boy, FALSE)
             ELSE IF velocity_y(boy) > 0 /\ pos_y(boy) < platform.position.y
                  THEN Checked(transition(boy,
                            Land(platform.bounding_boxes[i].position.y)), FALSE)
                  ELSE Checked(transition(boy, KnockOut), FALSE)

check_intersection(obstacle, boy) ==
    IF obstacle.kind = "Barrier"
    THEN BarrierCheckIntersection(obstacle, boy)
    ELSE PlatformCheckIntersection(obstacle, boy)

rightmost(obstacle_list) ==
    IF Len(obstacle_list) = 0
    THEN 0
    ELSE LET rights == {ObstacleRight(obstacle_list[i]) : i \in 1..Len(obstacle_list)}
         IN  CHOOSE r \in rights : \A q \in rights : q <= r

----------------------------------------------------------------------------
(* segment.rs *)

create_floating_platform(position) ==
    PlatformNew(position, FLOATING_PLATFORM_BOUNDING_BOXES)

create_cliff_platform(position) ==
    PlatformNew(position, FLOATING_PLATFORM_BOUNDING_BOXES)

stone_and_platform(offset_x) ==
    << BarrierNew(ImageNew(Point(offset_x + INITIAL_STONE_OFFSET, STONE_ON_GROUND),
                           STONE_WIDTH, STONE_HEIGHT)),
       create_floating_platform(Point(offset_x + FIRST_PLATFORM, LOW_PLATFORM)) >>

other_platform(offset_x) ==
    << create_cliff_platform(Point(offset_x + FIRST_PLATFORM, HIGH_PLATFORM)) >>

----------------------------------------------------------------------------
(* Walk *)

WalkVelocity(w) == -walking_speed(w.boy)

(* C16 mutant: the segment is generated without the buffer *)
generate_next_segment_no_buffer(w, next_segment) ==
    LET next_obstacles ==
            CASE next_segment = 0 -> stone_and_platform(w.timeline)
              [] next_segment = 1 -> other_platform(w.timeline)
              [] OTHER -> << >>
    IN  [w EXCEPT !.timeline = rightmost(next_obstacles),
                  !.obstacles = @ \o next_obstacles]

(* C17 mutant: timeline is set to the offset of the new segment *)
generate_next_segment_left_edge(w, next_segment) ==
    LET next_obstacles ==
            CASE next_segment = 0 -> stone_and_platform(w.timeline + OBSTACLE_BUFFER)
              [] next_segment = 1 -> other_platform(w.timeline + OBSTACLE_BUFFER)
              [] OTHER -> << >>
    IN  [w EXCEPT !.timeline = w.timeline + OBSTACLE_BUFFER,
                  !.obstacles = @ \o next_obstacles]

generate_next_segment(w, next_segment) ==
    LET next_obstacles ==
            CASE next_segment = 0 -> stone_and_platform(w.timeline + OBSTACLE_BUFFER)
              [] next_segment = 1 -> other_platform(w.timeline + OBSTACLE_BUFFER)
              [] OTHER -> << >>
    IN  [w EXCEPT !.timeline = rightmost(next_obstacles),
                  !.obstacles = @ \o next_obstacles]

(* C4 mutant: the reset keeps the obstacles and the timeline of the finished run *)
WalkReset_keep_obstacles(w) ==
    [boy |-> RedHatBoyReset(w.boy),
     backgrounds |-> w.backgrounds,
     obstacles |-> w.obstacles,
     timeline |-> w.timeline]

WalkReset(w) ==
    LET start_obstacles == stone_and_platform(0)
    IN  [boy |-> RedHatBoyReset(w.boy),
         backgrounds |-> w.backgrounds,
         obstacles |-> start_obstacles,
         timeline |-> rightmost(start_obstacles)]

(* The Walk built by WalkTheDog::initialize *)
InitialWalk ==
    LET starting_obstacles == stone_and_platform(0)
    IN  [boy |-> RedHatBoyNew,
         backgrounds |->
            << ImageNew(Point(0, 0), BACKGROUND_WIDTH, BACKGROUND_HEIGHT),
               ImageNew(Point(BACKGROUND_WIDTH, 0), BACKGROUND_WIDTH, BACKGROUND_HEIGHT) >>,
         obstacles |-> starting_obstacles,
         timeline |-> rightmost(starting_obstacles)]

(* No Walk: WalkTheDog.machine is None *)
NoWalk ==
    [boy |-> RedHatBoyNew, backgrounds |-> << >>, obstacles |-> << >>, timeline |-> 0]

----------------------------------------------------------------------------
(* Input and the ghost logs *)

Keys == {"ArrowDown", "ArrowRight", "Space"}

KeyStates == {keys \in SUBSET Keys : Cardinality(keys) <= MaxPressed}

is_pressed(keys, code) == code \in keys

Applied(event, before) ==
    [event |-> event, before |-> before, after |-> transition(before, event)]

Last(log) == log[Len(log)]

----------------------------------------------------------------------------
(* WalkTheDogState<Ready> *)

(* C1 mutant: any pressed key starts the walk *)
ReadyStep_any_key(w, keys) ==
    LET e1 == Applied(Update, w.boy)
        e2 == Applied(Run, e1.after)
    IN  IF keys # {}
        THEN [phase |-> "Walking", walk |-> [w EXCEPT !.boy = e2.after],
              events |-> << e1, e2 >>]
        ELSE [phase |-> "Ready", walk |-> [w EXCEPT !.boy = e1.after],
              events |-> << e1 >>]

ReadyStep(w, keys) ==
    LET e1 == Applied(Update, w.boy)
        e2 == Applied(Run, e1.after)
    IN  IF is_pressed(keys, "ArrowRight")
        THEN [phase |-> "Walking", walk |-> [w EXCEPT !.boy = e2.after],
              events |-> << e1, e2 >>]
        ELSE [phase |-> "Ready", walk |-> [w EXCEPT !.boy = e1.after],
              events |-> << e1 >>]

----------------------------------------------------------------------------
(* WalkTheDogState<Walking> *)

InputEvents(keys) ==
    (IF is_pressed(keys, "ArrowDown") THEN << Slide >> ELSE << >>)
    \o (IF is_pressed(keys, "ArrowRight") THEN << Run >> ELSE << >>)
    \o (IF is_pressed(keys, "Space") THEN << Jump >> ELSE << >>)
    \o << Update >>

RECURSIVE ApplyAll(_, _, _)
ApplyAll(boy, evs, log) ==
    IF Len(evs) = 0
    THEN log
    ELSE LET e == Applied(Head(evs), boy)
         IN  ApplyAll(e.after, Tail(evs), Append(log, e))

MoveBackgrounds(backgrounds, velocity) ==
    LET first1 == ImageMoveHorizontally(backgrounds[1], velocity)
        second1 == ImageMoveHorizontally(backgrounds[2], velocity)
        first2 == IF ImageRight(first1) < 0
                  THEN ImageSetX(first1, ImageRight(second1))
                  ELSE first1
        second2 == IF ImageRight(second1) < 0
                   THEN ImageSetX(second1, ImageRight(first2))
                   ELSE second1
    IN  << first2, second2 >>

(* C19 mutant: nothing is pruned *)
Retain_all(obstacles) == obstacles

(* C20 mutant: an obstacle is pruned while its right edge is still visible *)
Retain_early(obstacles) ==
    SelectSeq(obstacles, LAMBDA o : ObstacleRight(o) > RUNNING_SPEED)

Retain(obstacles) == SelectSeq(obstacles, LAMBDA o : ObstacleRight(o) > 0)

(* obstacles.iter_mut().for_each(move_horizontally; check_intersection),
   from obstacle i on; stops at a failed atlas lookup *)
RECURSIVE MoveAndCheckAll(_, _, _)
MoveAndCheckAll(acc, i, velocity) ==
    IF i > Len(acc.obstacles) \/ acc.failed
    THEN acc
    ELSE LET moved == ObstacleMoveHorizontally(acc.obstacles[i], velocity)
             r == check_intersection(moved, acc.boy)
         IN  MoveAndCheckAll(
                [obstacles |-> [acc.obstacles EXCEPT ![i] = moved],
                 boy |-> r.boy,
                 checks |-> Append(acc.checks,
                                [obstacle |-> moved, before |-> acc.boy, after |-> r.boy]),
                 failed |-> r.failed],
                i + 1, velocity)

(* Walking::update, lines 168-179: retain, move and check every obstacle,
   then generate the next segment or scroll the timeline; log is the list
   of events applied so far, boy the character after boy.update() *)
ScrollAndGenerate(w, log, boy, velocity, acc, next_segment) ==
    [walk |->
        IF w.timeline < TIMELINE_MINIMUM
        THEN generate_next_segment(
                [boy |-> acc.boy,
                 backgrounds |-> MoveBackgrounds(w.backgrounds, velocity),
                 obstacles |-> acc.obstacles,
                 timeline |-> w.timeline], next_segment)
        ELSE [boy |-> acc.boy,
              backgrounds |-> MoveBackgrounds(w.backgrounds, velocity),
              obstacles |-> acc.obstacles,
              timeline |-> w.timeline + velocity],
     events |-> log,
     checks |-> acc.checks,
     failed |-> acc.failed]

(* C18 mutant: timeline scrolls twice as fast as the obstacles *)
ScrollObstacles_fast_timeline(w, log, boy, velocity, next_segment) ==
    ScrollAndGenerate([w EXCEPT !.timeline = @ + velocity], log, boy, velocity,
        MoveAndCheckAll([obstacles |-> Retain(w.obstacles), boy |-> boy,
                         checks |-> << >>, failed |-> FALSE], 1, velocity),
        next_segment)

ScrollObstacles(w, log, boy, velocity, next_segment) ==
    ScrollAndGenerate(w, log, boy, velocity,
        MoveAndCheckAll([obstacles |-> Retain(w.obstacles), boy |-> boy,
                         checks |-> << >>, failed |-> FALSE], 1, velocity),
        next_segment)

AfterBoyUpdate(w, log, boy, next_segment) ==
    ScrollObstacles(w, log, boy, WalkVelocity([w EXCEPT !.boy = boy]), next_segment)

AfterInput(w, log, next_segment) ==
    AfterBoyUpdate(w, log, Last(log).after, next_segment)

(* Walking::update up to the knocked_out test *)
WalkingStep(w, keys, next_segment) ==
    AfterInput(w, ApplyAll(w.boy, InputEvents(keys), << >>), next_segment)

(* browser: the ui container, draw_ui, hide_ui, find_html_element_by_id *)
UI_CONTAINER_ID == "ui"

DRAWN_BUTTON_ID == "new_game"

LOOKUP_ID == "new game"

draw_ui_ok(dom_page) == UI_CONTAINER_ID \in dom_page

draw_ui(dom_ui) == dom_ui \cup {DRAWN_BUTTON_ID}

hide_ui(dom_ui) == {}

find_html_element_by_id(dom_page, dom_ui, id) == id \in (dom_page \cup dom_ui)

(* end_game: the receiver is Some iff draw_ui and the lookup both succeed *)
EndGameReceiver(dom_page, dom_ui) ==
    /\ draw_ui_ok(dom_page)
    /\ find_html_element_by_id(dom_page, draw_ui(dom_ui), LOOKUP_ID)

EndGameWalk(w) == WalkReset(w)

----------------------------------------------------------------------------
(* WalkTheDogState<GameOver> *)

(* try_next: Ok(Some(())) iff a message waits in the channel *)
(* C3 mutant: a single waiting message is not seen *)
new_game_pressed_second(pending) == pending > 1

new_game_pressed(pending) == pending > 0

NewGameWalk(w) == w

----------------------------------------------------------------------------
(* The game: initialize, update, and the click on the new-game element *)

Pages == { {"canvas", UI_CONTAINER_ID}, {"canvas", UI_CONTAINER_ID, LOOKUP_ID} }

Init ==
    /\ machine = "None"
    /\ walk = NoWalk
    /\ new_game_event = 0
    /\ ui = {}
    /\ page \in Pages
    /\ keystate = {}
    /\ events = << >>
    /\ checks = << >>
    /\ ticks = 0
    /\ games = 0
    /\ result = "None"

TickBudget == IF games = 0 THEN MaxTicks ELSE MaxReplayTicks

(* C22 mutant: a second initialize builds the game again *)
Initialize_again ==
    /\ result # "Panic"
    /\ machine = "None" \/ (games = 0 /\ ticks <= MaxReinitTicks)
    /\ machine' = "Ready"
    /\ walk' = InitialWalk
    /\ result' = "Ok"
    /\ UNCHANGED <<new_game_event, ui, page, keystate, events, checks, ticks, games>>

Initialize ==
    /\ result # "Panic"
    /\ IF machine = "None"
       THEN /\ machine' = "Ready"
            /\ walk' = InitialWalk
            /\ result' = "Ok"
       ELSE /\ games = 0
            /\ ticks <= MaxReinitTicks
            /\ result' = "Err"
            /\ UNCHANGED <<machine, walk>>
    /\ UNCHANGED <<new_game_event, ui, page, keystate, events, checks, ticks, games>>

ReadyOutcome(r) ==
    /\ machine' = r.phase
    /\ walk' = r.walk
    /\ events' = r.events

ReadyUpdate(keys) ==
    /\ machine = "Ready"
    /\ result # "Panic"
    /\ ReadyOutcome(ReadyStep(walk, keys))
    /\ keystate' = keys
    /\ checks' = << >>
    /\ result' = "Unit"
    /\ UNCHANGED <<new_game_event, ui, page, ticks, games>>

SegmentChoices(w) == IF w.timeline < TIMELINE_MINIMUM THEN {0, 1} ELSE {0}

(* The end of Walking::update: r is what WalkingStep yields *)
WalkingOutcome(r) ==
    /\ events' = r.events
    /\ checks' = r.checks
    /\ IF r.failed
       THEN /\ machine' = "None"
            /\ walk' = NoWalk
            /\ result' = "Panic"
            /\ ticks' = ticks + 1
            /\ UNCHANGED <<new_game_event, ui, games>>
       ELSE IF ~knocked_out(r.walk.boy)
       THEN /\ machine' = "Walking"
            /\ walk' = r.walk
            /\ result' = "Unit"
            /\ ticks' = ticks + 1
            /\ UNCHANGED <<new_game_event, ui, games>>
       ELSE IF EndGameReceiver(page, ui)
       THEN /\ machine' = "GameOver"
            /\ walk' = EndGameWalk(r.walk)
            /\ new_game_event' = 0
            /\ ui' = draw_ui(ui)
            /\ result' = "Unit"
            /\ ticks' = 0
            /\ games' = games + 1
       ELSE /\ machine' = "None"
            /\ walk' = NoWalk
            /\ result' = "Panic"
            /\ ui' = IF draw_ui_ok(page) THEN draw_ui(ui) ELSE ui
            /\ ticks' = ticks + 1
            /\ UNCHANGED <<new_game_event, games>>

WalkingUpdate(keys, next_segment) ==
    /\ machine = "Walking"
    /\ result # "Panic"
    /\ ticks < TickBudget
    /\ WalkingOutcome(WalkingStep(walk, keys, next_segment))
    /\ keystate' = keys
    /\ UNCHANGED page

GameOverUpdate(keys) ==
    /\ machine = "GameOver"
    /\ result # "Panic"
    /\ IF new_game_pressed(new_game_event)
       THEN /\ machine' = "Ready"
            /\ walk' = NewGameWalk(walk)
            /\ ui' = hide_ui(ui)
            /\ new_game_event' = 0
       ELSE UNCHANGED <<machine, walk, ui, new_game_event>>
    /\ keystate' = keys
    /\ events' = << >>
    /\ checks' = << >>
    /\ result' = "Unit"
    /\ UNCHANGED <<page, ticks, games>>

(* A click on the element the GameOver phase listens on *)
Click ==
    /\ machine = "GameOver"
    /\ result # "Panic"
    /\ new_game_event < MaxClicks
    /\ new_game_event' = new_game_event + 1
    /\ UNCHANGED <<machine, walk, ui, page, keystate, events, checks, ticks,
                   games, result>>

Next ==
    \/ Initialize
    \/ \E keys \in KeyStates : ReadyUpdate(keys)
    \/ \E keys \in KeyStates : \E next_segment \in SegmentChoices(walk) :
            WalkingUpdate(keys, next_segment)
    \/ \E keys \in KeyStates : GameOverUpdate(keys)
    \/ Click

Spec == Init /\ [][Next]_vars

(* The frame driver calls update on every frame: while a Walking tick can
   be taken, one is taken *)
TickAdvance ==
    /\ machine = "Walking"
    /\ result # "Panic"
    /\ ticks < TickBudget
    /\ ticks' = ticks + 1

SpecLive == Init /\ [][Next]_vars /\ WF_ticks(TickAdvance)

----------------------------------------------------------------------------
(* What the last update call showed of the character *)

BoysSeen ==
    {walk.boy}
    \cup {events[i].before : i \in 1..Len(events)}
    \cup {events[i].after : i \in 1..Len(events)}
    \cup {checks[i].before : i \in 1..Len(checks)}
    \cup {checks[i].after : i \in 1..Len(checks)}

(* The last update call was a Walking tick: it applied events, none to Idle *)
WalkingTicked == events # << >> /\ events[1].before.state # "Idle"

(* The character after the input, update, scroll and collision steps *)
BoyAfterSteps ==
    IF checks # << >> THEN Last(checks).after ELSE Last(events).after

(* check i of the last tick met an overlapping Barrier *)
BarrierOverlap(i) ==
    /\ checks[i].obstacle.kind = "Barrier"
    /\ CellFound(checks[i].before)
    /\ intersects(bounding_box(checks[i].before),
                  checks[i].obstacle.image.bounding_box)

----------------------------------------------------------------------------
(* C1: the phase only changes along Ready -> Walking -> GameOver -> Ready;
   a Ready tick moves to Walking iff ArrowRight is pressed on that tick, and
   then the character is Running with velocity.x = RUNNING_SPEED; otherwise
   the phase stays Ready. *)
PhaseCycle ==
    { <<"Ready", "Walking">>, <<"Walking", "GameOver">>, <<"GameOver", "Ready">> }

C1_PhaseCycle ==
    [][ /\ (machine # "None" /\ machine' # "None" /\ machine' # machine)
            => <<machine, machine'>> \in PhaseCycle
        /\ (machine = "Ready" /\ result' = "Unit")
            => /\ machine' = "Walking" <=> "ArrowRight" \in keystate'
               /\ machine' \in {"Ready", "Walking"}
               /\ machine' = "Walking"
                    => /\ walk'.boy.state = "Running"
                       /\ walk'.boy.context.velocity.x = RUNNING_SPEED
      ]_vars

(* C1 witness: the cycle has been walked once and Walking entered again *)
C1_Witness ==
    /\ machine = "Walking"
    /\ games = 1
    /\ "ArrowRight" \in keystate
    /\ walk.boy.state = "Running"

(* C2: a Walking tick ends in GameOver iff the character is KnockedOut after
   the tick's input, update, scroll, collision and generation steps; in
   every other case the phase stays Walking. *)
C2_WalkingEndsInGameOver ==
    [][ (machine = "Walking" /\ result' \in {"Unit", "Panic"})
            => /\ machine' = "GameOver" <=> BoyAfterSteps'.state = "KnockedOut"
               /\ machine' \in {"GameOver", "Walking"}
      ]_vars

(* C3: a GameOver tick moves to Ready iff a new-game signal waits in the
   channel when the tick polls it; with no signal waiting the phase and the
   whole Walk are unchanged; a signal delivered in GameOver stays in the
   channel until a tick consumes it. *)
C3_GameOverTick ==
    [][ machine = "GameOver"
            => /\ (new_game_event' > new_game_event)
                    => /\ machine' = "GameOver"
                       /\ walk' = walk
               /\ (new_game_event' <= new_game_event)
                    => /\ machine' = "Ready" <=> new_game_event > 0
                       /\ machine' \in {"Ready", "GameOver"}
                       /\ new_game_event = 0
                            => /\ walk' = walk
                               /\ new_game_event' = 0
      ]_vars

(* C3 witness: a delivered signal has moved the game back to Ready *)
C3_Witness ==
    /\ machine = "Ready"
    /\ games = 1
    /\ ui = {}

(* C4: right after GameOver -> Ready the character is Idle at
   (STARTING_POINT, FLOOR) with velocity (0,0) and frame 0, the obstacle
   list is a fresh stone_and_platform segment at offset 0 and timeline is
   that segment's rightmost edge. *)
C4_ResetRoundTrip ==
    (machine = "Ready" /\ games > 0 /\ events = << >>)
        => /\ walk.boy.state = "Idle"
           /\ walk.boy.context.position = Point(STARTING_POINT, FLOOR)
           /\ walk.boy.context.velocity = Point(0, 0)
           /\ walk.boy.context.frame = 0
           /\ walk.obstacles = stone_and_platform(0)
           /\ walk.timeline = FIRST_PLATFORM + 384
           /\ walk.timeline = rightmost(walk.obstacles)

(* C4 witness: the state right after GameOver -> Ready *)
C4_Witness ==
    /\ machine = "Ready"
    /\ games > 0
    /\ events = << >>
    /\ Len(walk.obstacles) = 2

(* C5: while the phase is GameOver the Walk still holds the KnockedOut
   character of the finished run; the Walk is reset on GameOver -> Ready,
   not earlier. *)
C5_GameOverHoldsDeadCharacter ==
    machine = "GameOver" => walk.boy.state = "KnockedOut"

(* C6: position.y <= FLOOR for every character the program holds, between
   update calls and at every step inside one. *)
C6_FloorClamp ==
    \A boy \in BoysSeen : boy.context.position.y <= FLOOR

(* C6 witness: a Jumping character has come down on a platform *)
C6_Witness ==
    \E i \in 1..Len(checks) :
        /\ checks[i].obstacle.kind = "Platform"
        /\ checks[i].before.state = "Jumping"
        /\ checks[i].after.state = "Running"
        /\ checks[i].after.context.position.y < checks[i].before.context.position.y

(* C7: velocity.y <= MAX_VELOCITY for every character the program holds. *)
C7_TerminalVelocity ==
    \A boy \in BoysSeen : boy.context.velocity.y <= MAX_VELOCITY

(* C7 witness: a jump has come back down to terminal velocity *)
C7_Witness ==
    /\ machine = "Walking"
    /\ walk.boy.state = "Jumping"
    /\ walk.boy.context.velocity.y = MAX_VELOCITY

(* C8: every (state, event) pair outside the transition table returns the
   same state with an identical context. *)
LandPositions == {LOW_PLATFORM, HIGH_PLATFORM, HEIGHT}

NoOpEvents(state) ==
    CASE state = "Idle" ->
            {Slide, Jump, KnockOut} \cup {Land(y) : y \in LandPositions}
      [] state = "Running" -> {Run}
      [] state = "Sliding" -> {Run, Slide, Jump}
      [] state = "Jumping" -> {Run, Slide, Jump}
      [] state = "Falling" ->
            {Run, Slide, Jump, KnockOut} \cup {Land(y) : y \in LandPositions}
      [] state = "KnockedOut" -> {Run, Slide, Jump, KnockOut}

C8_NoOpOutsideTable ==
    \A boy \in BoysSeen : \A event \in NoOpEvents(boy.state) :
        transition(boy, event) = boy

(* C8 witness: an input event outside the table was applied in a tick, and
   a KnockedOut character has been seen *)
C8_Witness ==
    /\ \E i \in 1..Len(events) :
            /\ events[i].before.state = "Falling"
            /\ events[i].event = Jump
            /\ events[i].after = events[i].before
    /\ \E boy \in BoysSeen : boy.state = "KnockedOut"

(* C9: on every Walking tick on which ArrowRight is held, RUNNING_SPEED is
   added again to velocity.x. *)
C9_CumulativeSpeed ==
    (WalkingTicked /\ "ArrowRight" \in keystate /\ events[1].before.state # "Falling")
        => Last(events).after.context.velocity.x
            = events[1].before.context.velocity.x + RUNNING_SPEED

(* C9 amended: in Walking the Run event is outside the transition table, so
   holding ArrowRight leaves velocity.x as it is; velocity.x is
   RUNNING_SPEED while Running, Sliding or Jumping and 0 otherwise. *)
C9_SpeedNotCumulative ==
    /\ \A boy \in BoysSeen :
            boy.context.velocity.x
                = IF boy.state \in {"Running", "Sliding", "Jumping"}
                  THEN RUNNING_SPEED ELSE 0
    /\ WalkingTicked
        => /\ Last(events).after.context.velocity.x
                = events[1].before.context.velocity.x
           /\ \A i \in 1..Len(events) :
                events[i].event = Run => events[i].after = events[i].before

(* C9 witness: ArrowRight was held on a Walking tick that is not the first *)
C9_Witness ==
    /\ WalkingTicked
    /\ "ArrowRight" \in keystate
    /\ ticks >= 2
    /\ machine = "Walking"
    /\ walk.boy.state = "Running"
    /\ walk.boy.context.velocity.x = RUNNING_SPEED

(* C10: whenever a Barrier's rectangle overlaps the collision box during
   check_intersection, the character is Falling afterwards. *)
C10_BarrierAlwaysFalling ==
    \A i \in 1..Len(checks) :
        BarrierOverlap(i) => checks[i].after.state = "Falling"

(* C10 amended: an overlapping Barrier leaves the character Falling, except
   a character that update has already turned KnockedOut, which stays
   KnockedOut with its context unchanged. *)
C10_BarrierFallingUnlessKnockedOut ==
    \A i \in 1..Len(checks) :
        BarrierOverlap(i)
            => IF checks[i].before.state = "KnockedOut"
               THEN checks[i].after = checks[i].before
               ELSE checks[i].after.state = "Falling"

(* C10 witness: a Barrier has knocked a rising Jumping character out *)
C10_Witness ==
    \E i \in 1..Len(checks) :
        /\ BarrierOverlap(i)
        /\ checks[i].before.state = "Jumping"
        /\ checks[i].before.context.velocity.y < 0
        /\ checks[i].after.state = "Falling"

(* check i of the last tick was made by a Platform on a character whose
   atlas cell exists *)
PlatformChecked(i) ==
    /\ checks[i].obstacle.kind = "Platform"
    /\ CellFound(checks[i].before)

(* Index of the first sub-rectangle of check i's Platform that overlaps the
   collision box, 0 if none *)
HitBox(i) ==
    FirstOverlap(checks[i].obstacle.bounding_boxes, bounding_box(checks[i].before))

(* The character of check i comes down from above the Platform *)
ComesDown(i) ==
    /\ checks[i].before.context.velocity.y > 0
    /\ checks[i].before.context.position.y < checks[i].obstacle.position.y

(* What the KnockOut event makes of a character *)
KnockedOutFrom(before, after) ==
    IF before.state \in {"Running", "Sliding", "Jumping"}
    THEN /\ after.state = "Falling"
         /\ after.context = [before.context EXCEPT !.frame = 0, !.velocity.x = 0]
    ELSE after = before

(* C11: an overlapping Platform lands the character on the first overlapping
   sub-rectangle's top when it comes down from above (position.y becomes
   top - PLAYER_HEIGHT, Jumping becomes Running with frame 0, other states
   keep their state), knocks it out otherwise, and leaves it unchanged when
   no sub-rectangle overlaps. *)
C11_PlatformRule ==
    \A i \in 1..Len(checks) :
        PlatformChecked(i)
            => IF HitBox(i) = 0
               THEN checks[i].after = checks[i].before
               ELSE IF ComesDown(i)
               THEN /\ checks[i].after.context.position.y
                        = checks[i].obstacle.bounding_boxes[HitBox(i)].position.y
                            - PLAYER_HEIGHT
                    /\ IF checks[i].before.state = "Jumping"
                       THEN /\ checks[i].after.state = "Running"
                            /\ checks[i].after.context.frame = 0
                       ELSE checks[i].after.state = checks[i].before.state
               ELSE KnockedOutFrom(checks[i].before, checks[i].after)

(* C11 witness: a Jumping character has landed on a sub-rectangle that is
   not the first of its Platform *)
C11_Witness ==
    /\ \E i \in 1..Len(checks) :
            /\ PlatformChecked(i)
            /\ HitBox(i) > 1
            /\ ComesDown(i)
            /\ checks[i].before.state = "Jumping"
            /\ checks[i].after.state = "Running"
            /\ checks[i].after.context.position.y = LOW_PLATFORM - PLAYER_HEIGHT
    /\ machine = "Walking"

(* C12: a Falling character is left as it is by every input event and every
   collision check; each tick's update adds one to its frame, which began
   at 0; the 29th update makes it KnockedOut with the updated context kept,
   and that tick leaves Walking for GameOver. *)
C12_FallingRunsOut ==
    [][ (machine = "Walking" /\ result' \in {"Unit", "Panic"})
            => /\ \A i \in 1..Len(events') :
                    (events'[i].before.state = "Falling" /\ events'[i].event # Update)
                        => events'[i].after = events'[i].before
               /\ \A i \in 1..Len(checks') :
                    checks'[i].before.state = "Falling"
                        => checks'[i].after = checks'[i].before
               /\ (walk.boy.state # "Falling" /\ BoyAfterSteps'.state = "Falling")
                    => BoyAfterSteps'.context.frame = 0
               /\ walk.boy.state = "Falling"
                    => /\ Last(events').event = Update
                       /\ Last(events').before = walk.boy
                       /\ Last(events').after.context
                            = ContextUpdate(walk.boy.context, FALLING_FRAMES)
                       /\ BoyAfterSteps' = Last(events').after
                       /\ IF walk.boy.context.frame + 1 < FALLING_FRAMES
                          THEN /\ BoyAfterSteps'.state = "Falling"
                               /\ machine' = "Walking"
                               /\ walk'.boy = BoyAfterSteps'
                          ELSE /\ walk.boy.context.frame + 1 = FALLING_FRAMES
                               /\ BoyAfterSteps'.state = "KnockedOut"
                               /\ machine' = "GameOver"
      ]_vars

(* C13: the Slide event puts a Running character into Sliding with frame
   0; every update of a Sliding character adds one to the frame and keeps it
   Sliding while the new frame is below SLIDING_FRAMES, and the update that
   brings the frame to SLIDING_FRAMES (the 15th) makes it Running with frame
   0; no other event and no landing changes the frame of a Sliding
   character. *)
C13_SlidingRunsOut ==
    /\ \A i \in 1..Len(events) :
        LET e == events[i]
        IN  /\ (e.before.state = "Running" /\ e.event = Slide)
                => (e.after.state = "Sliding" /\ e.after.context.frame = 0)
            /\ (e.before.state = "Sliding" /\ e.event = Update)
                => IF e.before.context.frame + 1 < SLIDING_FRAMES
                   THEN /\ e.after.state = "Sliding"
                        /\ e.after.context.frame = e.before.context.frame + 1
                   ELSE /\ e.before.context.frame + 1 = SLIDING_FRAMES
                        /\ e.after.state = "Running"
                        /\ e.after.context.frame = 0
            /\ (e.before.state = "Sliding" /\ e.event # Update)
                => e.after = e.before
    /\ \A i \in 1..Len(checks) :
        (checks[i].before.state = "Sliding" /\ checks[i].after.state # "Falling")
            => /\ checks[i].after.state = "Sliding"
               /\ checks[i].after.context.frame = checks[i].before.context.frame

(* C13 witness: the 15th update of a slide has made the character Running *)
C13_Witness ==
    \E i \in 1..Len(events) :
        /\ events[i].before.state = "Sliding"
        /\ events[i].before.context.frame = SLIDING_FRAMES - 1
        /\ events[i].event = Update
        /\ events[i].after.state = "Running"
        /\ events[i].after.context.frame = 0

(* C14: the frame is 0 right after Idle --Run--> Running, after
   Running --Jump--> Jumping and after the landing that an update of a
   Jumping character makes on the floor. *)
C14_FrameResets ==
    \A i \in 1..Len(events) :
        LET e == events[i]
        IN  /\ (e.before.state = "Idle" /\ e.event = Run)
                => (e.after.state = "Running" /\ e.after.context.frame = 0)
            /\ (e.before.state = "Running" /\ e.event = Jump)
                => (e.after.state = "Jumping" /\ e.after.context.frame = 0)
            /\ (e.before.state = "Jumping" /\ e.event = Update
                    /\ e.after.state = "Running")
                => e.after.context.frame = 0

(* C14 witness: the update of a Jumping character whose frame was above 0
   has landed it on the floor *)
C14_Witness ==
    /\ \E i \in 1..Len(events) :
            /\ events[i].before.state = "Jumping"
            /\ events[i].before.context.frame > 0
            /\ events[i].event = Update
            /\ events[i].after.state = "Running"
            /\ events[i].after.context.position.y = FLOOR
    /\ machine = "Walking"

(* The frame-count of a state; KnockedOut has no update of the frame and
   keeps the FALLING_FRAMES of the last Falling update *)
FrameCount(state) ==
    CASE state = "Idle" -> IDLE_FRAMES
      [] state = "Running" -> RUNNING_FRAMES
      [] state = "Sliding" -> SLIDING_FRAMES
      [] state = "Jumping" -> JUMPING_FRAMES
      [] state = "Falling" -> FALLING_FRAMES
      [] state = "KnockedOut" -> FALLING_FRAMES + 1

(* C15: the frame of every character lies in [0, frame-count of its state):
   below 29 in Idle, 23 in Running, 15 in Sliding, 35 in Jumping and 29 in
   Falling. *)
C15_FrameHalfOpen ==
    \A boy \in BoysSeen :
        /\ boy.context.frame >= 0
        /\ boy.context.frame < FrameCount(boy.state)

(* C15 amended: the frame lies in [0, frame-count] with the upper end
   included in Idle, Running and Jumping, where the update after the
   frame-count wraps to 0, and excluded in Sliding and Falling, which leave
   their state on the update that reaches the frame-count. *)
C15_FrameClosed ==
    \A boy \in BoysSeen :
        /\ boy.context.frame >= 0
        /\ IF boy.state \in {"Idle", "Running", "Jumping"}
           THEN boy.context.frame <= FrameCount(boy.state)
           ELSE boy.context.frame < FrameCount(boy.state)

(* C15 witness: a Jumping character at the frame-count of its state *)
C15_Witness ==
    /\ machine = "Walking"
    /\ walk.boy.state = "Jumping"
    /\ walk.boy.context.frame = JUMPING_FRAMES

----------------------------------------------------------------------------
(* What a Walking tick that stays in Walking did to the obstacles *)

(* The step is a Walking update that ends in Walking *)
WalkingTick == machine = "Walking" /\ machine' = "Walking" /\ ticks' = ticks + 1

(* The scroll velocity of the step's tick: the walking speed after the
   character's update, negated *)
ScrollVelocity == -(Last(events').after.context.velocity.x)

(* The obstacles the step's tick moved and checked, in order *)
Scrolled == [i \in 1..Len(checks') |-> checks'[i].obstacle]

(* The obstacles of the Walk after the step that were not among the moved
   ones: the generated ones *)
Generated == SubSeq(walk'.obstacles, Len(checks') + 1, Len(walk'.obstacles))

(* The segments generate_next_segment can build at an offset *)
SegmentsAt(offset_x) == {stone_and_platform(offset_x), other_platform(offset_x)}

ObstacleLeft(obstacle) ==
    IF obstacle.kind = "Barrier"
    THEN obstacle.image.bounding_box.position.x
    ELSE obstacle.bounding_boxes[1].position.x

(* C16: a Walking tick that begins with timeline < TIMELINE_MINIMUM stays in
   Walking and appends exactly one segment, built at offset
   timeline + OBSTACLE_BUFFER, after the obstacles it moved; timeline is
   then the rightmost edge of that segment, at least the old timeline plus
   OBSTACLE_BUFFER; a tick that begins with timeline >= TIMELINE_MINIMUM
   appends nothing. *)
C16_SegmentGeneration ==
    [][ /\ (machine = "Walking" /\ walk.timeline < TIMELINE_MINIMUM
                /\ result' \in {"Unit", "Panic"})
            => machine' = "Walking"
        /\ WalkingTick
            => /\ Len(walk'.obstacles) >= Len(checks')
               /\ SubSeq(walk'.obstacles, 1, Len(checks')) = Scrolled
               /\ IF walk.timeline < TIMELINE_MINIMUM
                  THEN /\ Generated \in SegmentsAt(walk.timeline + OBSTACLE_BUFFER)
                       /\ walk'.timeline = rightmost(Generated)
                       /\ walk'.timeline >= walk.timeline + OBSTACLE_BUFFER
                  ELSE Generated = << >>
      ]_vars

(* C16 witness: a segment has been generated from a timeline that the scroll
   brought below TIMELINE_MINIMUM *)
C16_Witness ==
    /\ machine = "Walking"
    /\ ticks > 1
    /\ Len(walk.obstacles) > Len(checks)
    /\ walk.timeline = rightmost(SubSeq(walk.obstacles, Len(checks) + 1,
                                        Len(walk.obstacles)))
    /\ walk.timeline > InitialWalk.timeline + OBSTACLE_BUFFER + InitialWalk.timeline

(* C17: after every generation timeline is at least TIMELINE_MINIMUM, so the
   next tick does not generate, and every generated obstacle begins to the
   right of the right edge of every obstacle the Walk held before. *)
C17_OneSegmentPerGap ==
    [][ (WalkingTick /\ walk.timeline < TIMELINE_MINIMUM)
            => /\ walk'.timeline >= TIMELINE_MINIMUM
               /\ Generated # << >>
               /\ \A i \in 1..Len(Generated) :
                    /\ \A j \in 1..Len(Scrolled) :
                            ObstacleLeft(Generated[i]) > ObstacleRight(Scrolled[j])
                    /\ \A j \in 1..Len(walk.obstacles) :
                            ObstacleLeft(Generated[i]) > ObstacleRight(walk.obstacles[j])
      ]_vars

(* C17 witness: the tick after the second generation of a run has generated
   nothing *)
C17_Witness ==
    /\ machine = "Walking"
    /\ ticks > 2
    /\ Len(walk.obstacles) = Len(checks)
    /\ walk.timeline > InitialWalk.timeline + OBSTACLE_BUFFER + InitialWalk.timeline

(* The obstacles of the Walk before the step whose right edge is on screen *)
Visible == SelectSeq(walk.obstacles, LAMBDA o : ObstacleRight(o) > 0)

(* The step's tick moved timeline as it moved every obstacle it kept *)
ScrollStep ==
    /\ WalkingTick
    /\ walk.timeline >= TIMELINE_MINIMUM
    /\ walk'.timeline = walk.timeline + ScrollVelocity
    /\ Len(Scrolled) = Len(Visible)
    /\ \A i \in 1..Len(Scrolled) :
            ObstacleRight(Scrolled[i]) = ObstacleRight(Visible[i]) + ScrollVelocity

(* C18: timeline does not decrease on a tick that generates, and every step
   that decreases timeline is the scroll of a Walking tick, which changes
   timeline by the velocity it applies to every obstacle. *)
C18_OnlyScrollDecreases ==
    [][ (machine # "None" /\ machine' # "None")
            => /\ (WalkingTick /\ walk.timeline < TIMELINE_MINIMUM)
                    => walk'.timeline >= walk.timeline
               /\ (WalkingTick /\ walk.timeline >= TIMELINE_MINIMUM)
                    => ScrollStep
               /\ walk'.timeline < walk.timeline => ScrollStep
      ]_vars

(* C18 amended: as C18, but timeline also decreases when Walk::reset puts it
   back to the right edge of the starting segment at the end of a run. *)
C18_ScrollOrResetDecreases ==
    [][ (machine # "None" /\ machine' # "None")
            => /\ (WalkingTick /\ walk.timeline < TIMELINE_MINIMUM)
                    => walk'.timeline >= walk.timeline
               /\ (WalkingTick /\ walk.timeline >= TIMELINE_MINIMUM)
                    => ScrollStep
               /\ walk'.timeline < walk.timeline
                    => \/ ScrollStep
                       \/ /\ machine = "Walking"
                          /\ machine' = "GameOver"
                          /\ walk'.timeline = rightmost(stone_and_platform(0))
                          /\ walk'.obstacles = stone_and_platform(0)
      ]_vars

(* C18 witness: a run that generated and scrolled has ended and its Walk has
   been reset *)
C18_Witness ==
    /\ machine = "GameOver"
    /\ walk.timeline = rightmost(stone_and_platform(0))
    /\ Len(checks) >= 3

(* C19: after the scroll of a Walking tick no obstacle the tick moved has
   right() <= 0. *)
C19_NoneLeftOfScreen ==
    WalkingTicked
        => \A i \in 1..Len(checks) : ObstacleRight(checks[i].obstacle) > 0

(* C19 amended: the tick prunes before it scrolls: every obstacle it moved
   had right() > 0 before the move, so after the scroll every obstacle of
   the Walk has right() above the scroll velocity, and one at or left of 0
   stays until the pruning of the next tick. *)
C19_PrunedBeforeScroll ==
    /\ WalkingTicked
        => \A i \in 1..Len(checks) :
                ObstacleRight(checks[i].obstacle)
                    + Last(events).after.context.velocity.x > 0
    /\ machine = "Walking"
        => \A j \in 1..Len(walk.obstacles) :
                ObstacleRight(walk.obstacles[j]) > -RUNNING_SPEED

(* C19 witness: the scroll of a tick has left an obstacle it moved with its
   right edge at or left of 0 *)
C19_Witness ==
    /\ machine = "Walking"
    /\ WalkingTicked
    /\ \E i \in 1..Len(checks) :
            /\ ObstacleRight(checks[i].obstacle) <= 0
            /\ walk.obstacles[i] = checks[i].obstacle

(* C20: a Walking tick keeps exactly the obstacles whose right() is > 0 when
   it prunes, in their order, each moved by the scroll velocity, and the
   obstacles it generates come after all of them. *)
C20_PruningKeepsOrder ==
    [][ WalkingTick
            => /\ Len(walk'.obstacles) >= Len(Visible)
               /\ \A k \in 1..Len(Visible) :
                    walk'.obstacles[k]
                        = ObstacleMoveHorizontally(Visible[k], ScrollVelocity)
               /\ Len(walk'.obstacles) > Len(Visible)
                    => /\ walk.timeline < TIMELINE_MINIMUM
                       /\ SubSeq(walk'.obstacles, Len(Visible) + 1,
                                 Len(walk'.obstacles))
                            \in SegmentsAt(walk.timeline + OBSTACLE_BUFFER)
      ]_vars

(* C20 witness: the first stone has been pruned, the three obstacles behind
   it are kept in their order and a segment has been generated behind them *)
C20_Witness ==
    /\ machine = "Walking"
    /\ Len(checks) = 3
    /\ Len(walk.obstacles) > 3
    /\ walk.obstacles[1].kind = "Platform"
    /\ walk.obstacles[2].kind = "Barrier"
    /\ walk.obstacles[3].kind = "Platform"

----------------------------------------------------------------------------
(* C21: no update call fails and every update leaves the state machine
   present; the element end_game listens on is the control it has asked the
   ui to render. *)
C21_UpdateNeverFails ==
    /\ result # "Panic"
    /\ result = "Unit" => machine # "None"
    /\ machine = "GameOver" => LOOKUP_ID \in ui

(* An initialize call has returned in this step *)
Initialized == result' \in {"Ok", "Err"} /\ vars' # vars

(* C22: initialize on a present state machine returns an error and changes
   nothing of the game; on an absent one it yields phase Ready with an Idle
   character at the starting position, the stone_and_platform segment at
   offset 0 and timeline at that segment's rightmost edge. *)
C22_InitializeOnce ==
    [][ Initialized
            => IF machine = "None"
               THEN /\ result' = "Ok"
                    /\ machine' = "Ready"
                    /\ walk'.boy.state = "Idle"
                    /\ walk'.boy.context.position = Point(STARTING_POINT, FLOOR)
                    /\ walk'.boy.context.velocity = Point(0, 0)
                    /\ walk'.boy.context.frame = 0
                    /\ walk'.obstacles = stone_and_platform(0)
                    /\ walk'.timeline
                        = ObstacleRight(walk'.obstacles[Len(walk'.obstacles)])
                    /\ \A i \in 1..Len(walk'.obstacles) :
                            ObstacleRight(walk'.obstacles[i]) <= walk'.timeline
               ELSE /\ result' = "Err"
                    /\ UNCHANGED <<machine, walk, new_game_event, ui, page>>
      ]_vars

(* C22 witness: initialize has been refused on a game that is Walking *)
C22_Witness ==
    /\ result = "Err"
    /\ machine = "Walking"
    /\ walk.boy.state = "Running"

(* The vertical step every update makes, and nothing horizontal *)
PhysicsStep(before, after) ==
    /\ after.context.position.y
        = Min(before.context.position.y + before.context.velocity.y, FLOOR)
    /\ after.context.velocity.y
        = Min(before.context.velocity.y + GRAVITY, MAX_VELOCITY)
    /\ after.context.position.x = before.context.position.x
    /\ after.context.velocity.x = before.context.velocity.x

(* C23: every update, in each of the six states, moves position.y to
   min(position.y + velocity.y, FLOOR) and velocity.y to
   min(velocity.y + GRAVITY, MAX_VELOCITY) and leaves position.x and
   velocity.x alone; position.x is the starting x for every character. *)
C23_PhysicsExact ==
    /\ \A i \in 1..Len(events) :
            events[i].event = Update => PhysicsStep(events[i].before, events[i].after)
    /\ \A boy \in BoysSeen :
            /\ PhysicsStep(boy, transition(boy, Update))
            /\ boy.context.position.x = STARTING_POINT

(* C23 witness: the floor has clamped the update of a Falling character, and
   a KnockedOut character has been seen *)
C23_Witness ==
    /\ \E i \in 1..Len(events) :
            /\ events[i].event = Update
            /\ events[i].before.state = "Falling"
            /\ events[i].before.context.position.y
                    + events[i].before.context.velocity.y > FLOOR
            /\ events[i].after.context.position.y = FLOOR
    /\ \E boy \in BoysSeen : boy.state = "KnockedOut"

(* C24: the update of a Jumping character yields Running with frame 0 at
   position.y = HEIGHT - PLAYER_HEIGHT = FLOOR iff the physics step brings
   position.y to FLOOR or below it; otherwise the character stays Jumping,
   whatever its frame. *)
C24_JumpLandsOnFloor ==
    \A i \in 1..Len(events) :
        (events[i].before.state = "Jumping" /\ events[i].event = Update)
            => IF events[i].before.context.position.y
                    + events[i].before.context.velocity.y >= FLOOR
               THEN /\ events[i].after.state = "Running"
                    /\ events[i].after.context.frame = 0
                    /\ events[i].after.context.position.y = HEIGHT - PLAYER_HEIGHT
                    /\ events[i].after.context.position.y = FLOOR
               ELSE /\ events[i].after.state = "Jumping"
                    /\ events[i].after.context.position.y < FLOOR

(* C24 witness: a jump whose animation has wrapped has come down to the
   floor at terminal velocity *)
C24_Witness ==
    \E i \in 1..Len(events) :
        /\ events[i].before.state = "Jumping"
        /\ events[i].event = Update
        /\ events[i].before.context.velocity.y = MAX_VELOCITY
        /\ events[i].before.context.frame < JUMPING_FRAMES \div 2
        /\ events[i].after.state = "Running"
        /\ events[i].after.context.position.y = FLOOR

(* C25: a knock-out of a Running, Sliding or Jumping character zeroes
   velocity.x and leaves position and velocity.y as they were; on every
   tick that begins with a Falling character the scroll velocity is 0: the
   obstacles it keeps and the backgrounds stay where they are and timeline
   is not lowered. *)
C25_KnockOutStopsScroll ==
    [][ (machine = "Walking" /\ result' \in {"Unit", "Panic"})
            => /\ \A i \in 1..Len(checks') :
                    (checks'[i].before.state \in {"Running", "Sliding", "Jumping"}
                        /\ checks'[i].after.state = "Falling")
                        => /\ checks'[i].after.context.velocity.x = 0
                           /\ checks'[i].after.context.position
                                = checks'[i].before.context.position
                           /\ checks'[i].after.context.velocity.y
                                = checks'[i].before.context.velocity.y
               /\ walk.boy.state = "Falling"
                    => /\ ScrollVelocity = 0
                       /\ Scrolled = Visible
                       /\ machine' = "Walking"
                            => /\ walk'.backgrounds = walk.backgrounds
                               /\ walk'.timeline >= walk.timeline
                               /\ SubSeq(walk'.obstacles, 1, Len(Visible)) = Visible
      ]_vars

(* C25 witness: a character knocked out in the air is Falling and the Walk
   has stood still for some ticks *)
C25_Witness ==
    /\ machine = "Walking"
    /\ walk.boy.state = "Falling"
    /\ walk.boy.context.frame > 2
    /\ walk.boy.context.velocity.x = 0
    /\ walk.boy.context.position.y < FLOOR

(* C26: whenever a Walk exists, its obstacle collection is not empty and
   timeline is the greatest right() of its obstacles. *)
C26_TimelineIsRightmost ==
    machine # "None"
        => /\ walk.obstacles # << >>
           /\ \A i \in 1..Len(walk.obstacles) :
                ObstacleRight(walk.obstacles[i]) <= walk.timeline
           /\ \E i \in 1..Len(walk.obstacles) :
                ObstacleRight(walk.obstacles[i]) = walk.timeline

(* C26 witness: the scroll has brought timeline down to TIMELINE_MINIMUM *)
C26_Witness ==
    /\ machine = "Walking"
    /\ walk.timeline = TIMELINE_MINIMUM
    /\ Len(walk.obstacles) >= 2

(* C27: in Ready the character is Idle with velocity.x = 0; in Walking it is
   Running, Sliding, Jumping or Falling. *)
C27_StateMatchesPhase ==
    /\ machine = "Ready"
        => (walk.boy.state = "Idle" /\ walk.boy.context.velocity.x = 0)
    /\ machine = "Walking"
        => walk.boy.state \in {"Running", "Sliding", "Jumping", "Falling"}

(* C27 witness: the last Falling tick before the character is KnockedOut *)
C27_Witness ==
    /\ machine = "Walking"
    /\ walk.boy.state = "Falling"
    /\ walk.boy.context.frame = FALLING_FRAMES - 1

(* The sheet's frame count the claim gives for the animation of a state *)
ClaimedFrameCount(state) ==
    CASE state = "Idle" -> 10
      [] state = "Running" -> 8
      [] state = "Sliding" -> 5
      [] state = "Jumping" -> 12
      [] state = "Falling" -> 10
      [] state = "KnockedOut" -> 10

(* C28: for every character between updates and at every collision check
   the sprite index frame / 3 + 1 is at most the frame count of its
   animation (10 Idle, 8 Run, 5 Slide, 12 Jump, 10 Dead), the atlas holds
   that cell and no lookup misses. *)
C28_SpriteIndexInSheet ==
    /\ \A boy \in BoysSeen :
            /\ FrameIndex(boy) >= 1
            /\ FrameIndex(boy) <= ClaimedFrameCount(boy.state)
            /\ ClaimedFrameCount(boy.state) = SheetFrameCount(StateFrameName(boy))
            /\ CellFound(boy)
    /\ \A i \in 1..Len(checks) : CellFound(checks[i].before)

(* C28 witness: a collision check of a Jumping character at the last cell of
   the Jump animation *)
C28_Witness ==
    \E i \in 1..Len(checks) :
        /\ checks[i].before.state = "Jumping"
        /\ FrameIndex(checks[i].before) = ClaimedFrameCount("Jumping")

(* C29: under continued ticks a Jumping character eventually is not
   Jumping any more, for every input and every obstacle it meets; stated
   for every Jumping character seen JumpHorizon ticks or more before the
   explored ticks end. *)
C29_JumpTerminates ==
    (machine = "Walking" /\ walk.boy.state = "Jumping"
        /\ ticks + JumpHorizon <= TickBudget)
    ~> (machine # "Walking" \/ walk.boy.state # "Jumping")

(* C29 witness: a rising Jumping character above the height of a platform
   top, with JumpHorizon ticks left *)
C29_Witness ==
    /\ machine = "Walking"
    /\ walk.boy.state = "Jumping"
    /\ ticks + JumpHorizon <= TickBudget
    /\ walk.boy.context.position.y < LOW_PLATFORM - PLAYER_HEIGHT
    /\ walk.boy.context.velocity.y < 0

====
